---- MODULE Spec2Model ----
(***************************************************************************)
(* Model of the k6 documentation ingestion pipeline                        *)
(* (python-services/ingest.py) and of the embedding endpoint               *)
(* (python-services/embed_api.py).                                         *)
(*                                                                         *)
(* Strings whose characters the code inspects (path segments, file names)  *)
(* are sequences of one-character strings, so that regular-expression      *)
(* matching, substring tests and suffix tests are computed character by    *)
(* character as the code computes them.                                    *)
(***************************************************************************)
EXTENDS Integers, Sequences, FiniteSets, TLC

VARIABLES
    \* the filesystem: the directories that exist, and the text of every file
    fsDirs, fsFiles,
    \* the base_path argument of the call under study
    base_path,
    \* extract_metadata_from_path(file_path, base_path) call
    file_path, metadata, xpc,
    \* should_include_directory(dir_path, base_path) call
    dir_path, include, ipc,
    \* parse_frontmatter(file_path) call
    parse_path, fm_data, ppc,
    \* the ingestion run (module level of ingest.py)
    pc, walk_stack, root, files, enhanced_documents, total_files_found,
    files_processed, docs_chunks, vectorstore, store_accessed, exit_status,
    \* the embedding endpoint: the requests answered so far with their
    \* responses, and the texts given to model.encode
    http_log, encode_calls

fsVars == <<fsDirs, fsFiles>>
extractVars == <<file_path, metadata, xpc>>
includeVars == <<dir_path, include, ipc>>
parseVars == <<parse_path, fm_data, ppc>>
walkVars == <<walk_stack, root, files>>
loadVars == <<enhanced_documents, total_files_found, files_processed>>
storeVars == <<docs_chunks, vectorstore, store_accessed>>
runVars == <<pc, walkVars, loadVars, storeVars, exit_status>>
\* what an ingestion run leaves alone
embedVars == <<http_log, encode_calls>>
inputVars == <<fsVars, base_path, extractVars, includeVars, parseVars, embedVars>>
vars == <<inputVars, runVars>>

(***************************************************************************)
(* Strings                                                                 *)
(***************************************************************************)
S_k6 == <<"k", "6">>
S_k6_studio == <<"k", "6", "-", "s", "t", "u", "d", "i", "o">>
S_next == <<"n", "e", "x", "t">>
S_current == <<"c", "u", "r", "r", "e", "n", "t">>
S_unknown == <<"u", "n", "k", "n", "o", "w", "n">>
S_dotdot == <<".", ".">>
S_dot == <<".">>
S_v1_0_x == <<"v", "1", ".", "0", ".", "x">>
S_v1_2_x == <<"v", "1", ".", "2", ".", "x">>
S_v0_4_x == <<"v", "0", ".", "4", ".", "x">>
S_v0_52_x == <<"v", "0", ".", "5", "2", ".", "x">>
S_v12_30_x == <<"v", "1", "2", ".", "3", "0", ".", "x">>
S_v1_0 == <<"v", "1", ".", "0">>
S_1_0_x == <<"1", ".", "0", ".", "x">>
S_v1_0_xyz == <<"v", "1", ".", "0", ".", "x", "y", "z">>
S_V1_0_x == <<"V", "1", ".", "0", ".", "x">>
S_av1_0_x == <<"a", "v", "1", ".", "0", ".", "x">>
S_javascript_api == <<"j", "a", "v", "a", "s", "c", "r", "i", "p", "t", "-", "a", "p", "i">>
S_examples == <<"e", "x", "a", "m", "p", "l", "e", "s">>
S_set_up == <<"s", "e", "t", "-", "u", "p">>
S_introduction == <<"i", "n", "t", "r", "o", "d", "u", "c", "t", "i", "o", "n">>
S_introduction_md == S_introduction \o <<".", "m", "d">>
S_installation_md == <<"i", "n", "s", "t", "a", "l", "l", "a", "t", "i", "o", "n", ".", "m", "d">>
S_k6_md == <<"k", "6", ".", "m", "d">>
S_basic_md == <<"b", "a", "s", "i", "c", ".", "m", "d">>
S_index_md == <<"_", "i", "n", "d", "e", "x", ".", "m", "d">>
S_a_md == <<"a", ".", "m", "d">>
S_notes_txt == <<"n", "o", "t", "e", "s", ".", "t", "x", "t">>
S_api == <<"a", "p", "i">>
S_md == <<".", "m", "d">>
S_v0_5 == <<"v", "0", ".", "5">>
S_v1_ == <<"v", "1", ".">>
S_sources == <<"s", "o", "u", "r", "c", "e", "s">>
S_elsewhere == <<"e", "l", "s", "e", "w", "h", "e", "r", "e">>

Digits == {"0", "1", "2", "3", "4", "5", "6", "7", "8", "9"}

\* Index of the first character of s at or after i that is not a digit
\* (Len(s) + 1 when there is none): the greedy \d+ of the pattern.
RECURSIVE SkipDigits(_, _)
SkipDigits(s, i) ==
    IF i <= Len(s) /\ s[i] \in Digits THEN SkipDigits(s, i + 1) ELSE i

\* The index just after the prefix of s matched by v\d+\.\d+\.x, or 0 when
\* the pattern does not match at the start of s.
VersionMatchEnd(s) ==
    IF ~(Len(s) >= 1 /\ s[1] = "v") THEN 0
    ELSE LET a == SkipDigits(s, 2) IN
         IF a = 2 \/ ~(a <= Len(s) /\ s[a] = ".") THEN 0
         ELSE LET b == SkipDigits(s, a + 1) IN
              IF b = a + 1 \/ ~(b <= Len(s) /\ s[b] = ".") THEN 0
              ELSE IF b + 1 <= Len(s) /\ s[b + 1] = "x" THEN b + 2 ELSE 0

\* re.match(r"v\d+\.\d+\.x", s): the pattern is anchored at the start of s
\* only; whatever follows the matched prefix is not looked at.
ReMatchVersion(s) == VersionMatchEnd(s) # 0

\* sub in s, for strings
Contains(s, sub) ==
    \E i \in 1..(Len(s) - Len(sub) + 1) : SubSeq(s, i, i + Len(sub) - 1) = sub

\* s.endswith(suffix)
EndsWith(s, suffix) ==
    /\ Len(s) >= Len(suffix)
    /\ SubSeq(s, Len(s) - Len(suffix) + 1, Len(s)) = suffix

(***************************************************************************)
(* Paths: a path is the sequence of its segments                           *)
(***************************************************************************)
RECURSIVE CommonPrefixLen(_, _)
CommonPrefixLen(p, q) ==
    IF p # <<>> /\ q # <<>> /\ Head(p) = Head(q)
    THEN 1 + CommonPrefixLen(Tail(p), Tail(q))
    ELSE 0

\* os.path.relpath(path, start): one ".." for every segment of start below
\* the common prefix, then the rest of path; "." when nothing is left.
RelPath(path, start) ==
    LET c == CommonPrefixLen(path, start)
        ups == [i \in 1..(Len(start) - c) |-> S_dotdot]
        rel == ups \o SubSeq(path, c + 1, Len(path))
    IN IF rel = <<>> THEN <<S_dot>> ELSE rel

\* Path(rel_path).parts: "." segments are dropped, so Path(".") has no part.
PathParts(rel_path) == SelectSeq(rel_path, LAMBDA seg : seg # S_dot)

\* os.path.join(a, b) for a relative b
PathJoin(a, b) == a \o b

(***************************************************************************)
(* The filesystem                                                          *)
(***************************************************************************)
\* os.path.expanduser("~/Dev/grafana/k6-docs/docs/sources"), as one segment
DocsPath == <<S_sources>>

Parent(p) == SubSeq(p, 1, Len(p) - 1)
Name(p) == p[Len(p)]
IsPrefix(p, q) == Len(p) <= Len(q) /\ SubSeq(q, 1, Len(p)) = p

\* os.path.exists(p)
PathExists(p) == p \in fsDirs \/ p \in DOMAIN fsFiles

\* the directories os.walk(top) yields: top and everything below it
\* (nothing when top is not a directory)
OsWalkDirs(top) == {d \in fsDirs : top \in fsDirs /\ IsPrefix(top, d)}

\* the `files` of the os.walk entry of directory d, as paths
FilesOf(d) == {p \in DOMAIN fsFiles : Parent(p) = d}

\* the `dirs` of the os.walk entry of directory d, as paths
SubdirsOf(d) == {e \in fsDirs : e # <<>> /\ Parent(e) = d /\ Len(e) = Len(d) + 1}

EmptyFs ==
    /\ fsDirs = {}
    /\ fsFiles = <<>>

(***************************************************************************)
(* should_include_directory                                                *)
(***************************************************************************)
\* md_files after the loop over os.walk(version_dir): one entry per file of
\* the subtree whose name ends with ".md" (entries are kept as paths, so two
\* files of the same name in different directories are two entries)
MdFiles(version_dir) ==
    {p \in DOMAIN fsFiles :
        Parent(p) \in OsWalkDirs(version_dir) /\ EndsWith(Name(p), S_md)}

\* HasContent as it would be if files were counted by distinct name
HasContent_DistinctNames(md_files) ==
    \/ Cardinality({Name(p) : p \in md_files}) > 1
    \/ \E p \in md_files : Name(p) # S_index_md

\* len(md_files) > 1 or any(f != '_index.md' for f in md_files)
HasContent(md_files) ==
    Cardinality(md_files) > 1 \/ \E p \in md_files : Name(p) # S_index_md

\* any(v in path_parts[1] for v in ['v0.5', 'v1.'])
IsRecent(version) == \E v \in {S_v0_5, S_v1_} : Contains(version, v)

IncludeVersion(bp, path_parts) ==
    LET version_dir == PathJoin(bp, <<path_parts[1], path_parts[2]>>) IN
    IF ~PathExists(version_dir) THEN FALSE
    ELSE HasContent(MdFiles(version_dir)) \/ IsRecent(path_parts[2])

\* should_include_directory as it would be if k6-studio directories were
\* included only when they exist
should_include_directory_StudioOnDisk(dp, bp) ==
    LET path_parts == PathParts(RelPath(dp, bp)) IN
    IF Len(path_parts) > 0 /\ path_parts[1] = S_k6_studio THEN PathExists(dp)
    ELSE IF /\ Len(path_parts) >= 2
            /\ path_parts[1] = S_k6
            /\ ReMatchVersion(path_parts[2])
    THEN IncludeVersion(bp, path_parts)
    ELSE TRUE

\* should_include_directory as it would be if the version rule applied to
\* the version directory alone (== 2 in place of >= 2)
should_include_directory_VersionDirOnly(dp, bp) ==
    LET path_parts == PathParts(RelPath(dp, bp)) IN
    IF Len(path_parts) > 0 /\ path_parts[1] = S_k6_studio THEN TRUE
    ELSE IF /\ Len(path_parts) = 2
            /\ path_parts[1] = S_k6
            /\ ReMatchVersion(path_parts[2])
    THEN IncludeVersion(bp, path_parts)
    ELSE TRUE

should_include_directory(dp, bp) ==
    LET path_parts == PathParts(RelPath(dp, bp)) IN
    IF Len(path_parts) > 0 /\ path_parts[1] = S_k6_studio THEN TRUE
    ELSE IF /\ Len(path_parts) >= 2
            /\ path_parts[1] = S_k6
            /\ ReMatchVersion(path_parts[2])
    THEN IncludeVersion(bp, path_parts)
    ELSE TRUE

(***************************************************************************)
(* extract_metadata_from_path                                              *)
(***************************************************************************)
\* ExtractK6 as it would be if the category were always taken from the
\* segment after the tool, version or not
ExtractK6_SecondSegment(m, path_parts) ==
    LET m1 == [m EXCEPT !.tool = S_k6] IN
    IF Len(path_parts) > 1
    THEN LET version_part == path_parts[2]
             m2 == IF version_part = S_next
                   THEN [m1 EXCEPT !.version = S_next]
                   ELSE IF ReMatchVersion(version_part)
                   THEN [m1 EXCEPT !.version = version_part]
                   ELSE m1
         IN [m2 EXCEPT !.category = path_parts[2]]
    ELSE m1

ExtractK6(m, path_parts) ==
    LET m1 == [m EXCEPT !.tool = S_k6] IN
    IF Len(path_parts) > 1
    THEN LET version_part == path_parts[2]
             m2 == IF version_part = S_next
                   THEN [m1 EXCEPT !.version = S_next]
                   ELSE IF ReMatchVersion(version_part)
                   THEN [m1 EXCEPT !.version = version_part]
                   ELSE [m1 EXCEPT !.category = version_part]
         IN IF Len(path_parts) > 2 /\ m2.version # S_unknown
            THEN [m2 EXCEPT !.category = path_parts[3]]
            ELSE IF Len(path_parts) > 1 /\ m2.version = S_unknown
            THEN [m2 EXCEPT !.category = path_parts[2]]
            ELSE m2
    ELSE m1

\* tool and version set to the given values, category the second segment
\* when there is one
ExtractFixed(m, path_parts, tool, version) ==
    LET m1 == [m EXCEPT !.tool = tool, !.version = version] IN
    IF Len(path_parts) > 1
    THEN [m1 EXCEPT !.category = path_parts[2]]
    ELSE m1

extract_metadata_from_path(fp, bp) ==
    LET rel_path == RelPath(fp, bp)
        path_parts == PathParts(rel_path)
        m == [file_path |-> rel_path, tool |-> S_unknown,
              version |-> S_unknown, category |-> S_unknown]
    IN IF Len(path_parts) = 0 THEN m
       ELSE IF path_parts[1] = S_k6 THEN ExtractK6(m, path_parts)
       ELSE IF path_parts[1] = S_k6_studio
       THEN ExtractFixed(m, path_parts, S_k6_studio, S_current)
       ELSE IF path_parts[1] = S_next
       THEN ExtractFixed(m, path_parts, S_k6, S_next)
       ELSE IF ReMatchVersion(path_parts[1])
       THEN ExtractFixed(m, path_parts, S_k6, path_parts[1])
       ELSE m

(***************************************************************************)
(* File texts and parse_frontmatter                                        *)
(*                                                                         *)
(* The text of a file is the sequence of its lines, a line being one of    *)
(*   <<"delim">>          a front matter boundary, "---"                   *)
(*   <<"kv", key, value>> a YAML line "key: value"; the value is           *)
(*                        <<"str", s>> or <<"int", n>>                     *)
(*   <<"bad">>            a line that is not valid YAML                    *)
(*   <<"ws">>             a blank line                                     *)
(*   <<"text", s>>        a line of body text                              *)
(*   <<"undecodable">>    bytes that are not UTF-8: reading the file raises*)
(***************************************************************************)
L_delim == <<"delim">>
L_bad == <<"bad">>
L_ws == <<"ws">>
L_undecodable == <<"undecodable">>
L_kv(key, value) == <<"kv", key, value>>
L_text(t) == <<"text", t>>
PyEmptyStr == <<"str", "">>

\* str.strip(): leading and trailing blank lines removed
RECURSIVE LStrip(_)
LStrip(t) == IF t # <<>> /\ Head(t) = L_ws THEN LStrip(Tail(t)) ELSE t
RECURSIVE RStrip(_)
RStrip(t) ==
    IF t # <<>> /\ t[Len(t)] = L_ws THEN RStrip(SubSeq(t, 1, Len(t) - 1)) ELSE t
Strip(t) == RStrip(LStrip(t))

\* str(value)
PyStr(value) == IF value[1] = "int" THEN ToString(value[2]) ELSE value[2]

\* open(file_path, 'r', encoding='utf-8') followed by reading it all:
\* raises when the path is not a file or its bytes do not decode
ReadRaises(path) ==
    \/ path \notin DOMAIN fsFiles
    \/ \E i \in 1..Len(fsFiles[path]) : fsFiles[path][i] = L_undecodable

\* dict.get(key, default) on the dictionary a sequence of "kv" lines loads to
\* (a later line with the same key overrides an earlier one)
RECURSIVE YamlGet(_, _, _)
YamlGet(fm, key, default) ==
    IF fm = <<>> THEN default
    ELSE LET last == fm[Len(fm)] IN
         IF last[1] = "kv" /\ last[2] = key THEN last[3]
         ELSE YamlGet(SubSeq(fm, 1, Len(fm) - 1), key, default)

\* the index of the first boundary line of t after its first line, 0 if none
ClosingDelim(t) ==
    IF \E j \in 2..Len(t) : t[j] = L_delim
    THEN CHOOSE j \in 2..Len(t) :
            t[j] = L_delim /\ \A k \in 2..(j - 1) : t[k] # L_delim
    ELSE 0

\* yaml loading of the front matter block raises: a line that is not YAML, or
\* body text mixed into key: value lines
YamlRaises(fm) ==
    \/ \E i \in 1..Len(fm) : fm[i] = L_bad
    \/ /\ \E i \in 1..Len(fm) : fm[i][1] = "kv"
       /\ \E i \in 1..Len(fm) : fm[i][1] = "text"

\* frontmatter.load(f) on a readable file: the text is stripped; without an
\* opening boundary line, or without a closing one, there is no front matter
\* and the whole text is the content; otherwise the block between the two
\* boundaries is loaded as YAML and the rest, stripped, is the content.
\* Gives [raised, metadata (the "kv" lines), content].
FrontmatterLoad(raw) ==
    LET text == Strip(raw)
        j == ClosingDelim(text)
    IN IF text = <<>> \/ Head(text) # L_delim \/ j = 0
       THEN [raised |-> FALSE, metadata |-> <<>>, content |-> text]
       ELSE LET fm == SubSeq(text, 2, j - 1) IN
            IF YamlRaises(fm)
            THEN [raised |-> TRUE, metadata |-> <<>>, content |-> <<>>]
            ELSE [raised |-> FALSE,
                  metadata |-> SelectSeq(fm, LAMBDA l : l[1] = "kv"),
                  content |-> Strip(SubSeq(text, j + 1, Len(text)))]

Raised == [raised |-> TRUE]
Returned(value) == [raised |-> FALSE, value |-> value]

\* the body of the outer try of parse_frontmatter
ParseTry(path) ==
    IF ReadRaises(path) THEN Raised
    ELSE LET post == FrontmatterLoad(fsFiles[path]) IN
         IF post.raised THEN Raised
         ELSE Returned([title |-> YamlGet(post.metadata, "title", PyEmptyStr),
                        description |-> YamlGet(post.metadata, "description", PyEmptyStr),
                        weight |-> PyStr(YamlGet(post.metadata, "weight", PyEmptyStr)),
                        content |-> post.content])

\* ParseFallback as it would be without its inner try
ParseFallback_Unguarded(path) ==
    IF ReadRaises(path) THEN Raised
    ELSE Returned([title |-> PyEmptyStr, description |-> PyEmptyStr,
                   weight |-> "", content |-> fsFiles[path]])

\* the except branch of parse_frontmatter: the file is read again as it is;
\* if that raises too, everything is empty
ParseFallback(path) ==
    IF ReadRaises(path)
    THEN Returned([title |-> PyEmptyStr, description |-> PyEmptyStr,
                   weight |-> "", content |-> <<>>])
    ELSE Returned([title |-> PyEmptyStr, description |-> PyEmptyStr,
                   weight |-> "", content |-> fsFiles[path]])

\* [raised |-> TRUE] when an exception leaves the function, else
\* [raised |-> FALSE, value |-> the dictionary returned]
parse_frontmatter(path) ==
    LET first == ParseTry(path) IN
    IF first.raised THEN ParseFallback(path) ELSE first

(***************************************************************************)
(* The ingestion run                                                       *)
(***************************************************************************)
\* Document(page_content=fm_data["content"],
\*          metadata={**path_metadata, "title": ..., "source": file_path})
MakeDocument(fp, path_metadata, fm) ==
    [page_content |-> fm.content,
     metadata |-> [file_path |-> path_metadata.file_path,
                   tool |-> path_metadata.tool,
                   version |-> path_metadata.version,
                   category |-> path_metadata.category,
                   title |-> fm.title,
                   description |-> fm.description,
                   weight |-> fm.weight,
                   source |-> fp]]

\* HasContentText as it would be without the filter on empty content
HasContentText_Unfiltered(fm) == TRUE

\* fm_data["content"].strip() is not empty
HasContentText(fm) == Strip(fm.content) # <<>>

\* not enhanced_documents
NoDocuments(docs) == docs = <<>>

\* RecursiveCharacterTextSplitter.split_text: the ordered text spans of the
\* content. Every non-blank line stands for one span of at most chunk_size
\* characters; blank spans are dropped.
SplitText(content) ==
    LET spans == SelectSeq(content, LAMBDA l : l # L_ws) IN
    [i \in 1..Len(spans) |-> <<spans[i]>>]

\* the chunks of one document: each carries a copy of the document's metadata
ChunksOf(doc) ==
    LET texts == SplitText(doc.page_content) IN
    [i \in 1..Len(texts) |-> [page_content |-> texts[i], metadata |-> doc.metadata]]

\* text_splitter.split_documents(documents)
RECURSIVE split_documents(_)
split_documents(docs) ==
    IF docs = <<>> THEN <<>>
    ELSE ChunksOf(Head(docs)) \o split_documents(Tail(docs))

\* if key not in chunk.metadata: chunk.metadata[key] = 'unknown'
WithDefault(m, key) ==
    IF key \in DOMAIN m THEN m
    ELSE [k \in DOMAIN m \cup {key} |-> IF k = key THEN S_unknown ELSE m[k]]

\* EnsureMetadata as it would be if the defaults were assigned without the
\* membership tests
EnsureMetadata_Overwrite(chunk) ==
    [chunk EXCEPT !.metadata =
        [k \in DOMAIN @ \cup {"tool", "version", "category"} |->
            IF k \in {"tool", "version", "category"} THEN S_unknown ELSE @[k]]]

\* the body of the loop over docs_chunks that fills in missing metadata
EnsureMetadata(chunk) ==
    [chunk EXCEPT !.metadata =
        WithDefault(WithDefault(WithDefault(@, "tool"), "version"), "category")]

\* the sequences that list every element of S once
Orders(S) ==
    {o \in [1..Cardinality(S) -> S] : \A x \in S : \E i \in DOMAIN o : o[i] = x}

Exit(status) ==
    /\ pc' = "exited"
    /\ exit_status' = status

\* get_k6_docs_path(): raises FileNotFoundError when the root is missing,
\* which the except clause of step 1 turns into exit(1); otherwise os.walk
\* starts at the root
GetDocsPath ==
    /\ pc = "start"
    /\ IF ~PathExists(DocsPath)
       THEN Exit(1) /\ UNCHANGED walk_stack
       ELSE /\ pc' = "walk"
            /\ walk_stack' = IF DocsPath \in fsDirs THEN <<DocsPath>> ELSE <<>>
            /\ UNCHANGED exit_status
    /\ UNCHANGED <<root, files, loadVars, storeVars, inputVars>>

\* one iteration of `for root, dirs, files in os.walk(docs_path)` up to the
\* loop over files: the walk goes on into the subdirectories, in some order,
\* whether or not the directory is included
WalkDir ==
    /\ pc = "walk"
    /\ files = {}
    /\ walk_stack # <<>>
    /\ LET d == Head(walk_stack) IN
       /\ root' = d
       /\ \E order \in Orders(SubdirsOf(d)) :
             walk_stack' = order \o Tail(walk_stack)
       /\ files' = IF should_include_directory(d, DocsPath) THEN FilesOf(d) ELSE {}
    /\ UNCHANGED <<pc, loadVars, storeVars, exit_status, inputVars>>

\* one iteration of `for file in files`
ProcessFile ==
    /\ pc = "walk"
    /\ \E fp \in files :
          /\ files' = files \ {fp}
          /\ IF ~EndsWith(Name(fp), S_md)
             THEN UNCHANGED <<pc, loadVars, exit_status>>
             ELSE LET path_metadata == extract_metadata_from_path(fp, DocsPath)
                      fm == parse_frontmatter(fp)
                  IN IF fm.raised
                     THEN /\ Exit(1)
                          /\ total_files_found' = total_files_found + 1
                          /\ UNCHANGED <<enhanced_documents, files_processed>>
                     ELSE /\ total_files_found' = total_files_found + 1
                          /\ IF HasContentText(fm.value)
                             THEN /\ enhanced_documents' =
                                        Append(enhanced_documents,
                                               MakeDocument(fp, path_metadata, fm.value))
                                  /\ files_processed' = files_processed + 1
                             ELSE UNCHANGED <<enhanced_documents, files_processed>>
                          /\ UNCHANGED <<pc, exit_status>>
    /\ UNCHANGED <<walk_stack, root, storeVars, inputVars>>

\* after the walk: exit(1) when no document was collected
FinishLoad ==
    /\ pc = "walk"
    /\ files = {}
    /\ walk_stack = <<>>
    /\ IF NoDocuments(enhanced_documents)
       THEN Exit(1)
       ELSE pc' = "chunk" /\ UNCHANGED exit_status
    /\ UNCHANGED <<walkVars, loadVars, storeVars, inputVars>>

\* step 2: split, fill in missing metadata, exit() when there is no chunk
ChunkDocuments ==
    /\ pc = "chunk"
    /\ LET chunks == split_documents(enhanced_documents) IN
       /\ docs_chunks' = [i \in 1..Len(chunks) |-> EnsureMetadata(chunks[i])]
       /\ IF chunks = <<>>
          THEN Exit(0)
          ELSE pc' = "store" /\ UNCHANGED exit_status
    /\ UNCHANGED <<walkVars, loadVars, vectorstore, store_accessed, inputVars>>

\* step 3: Chroma.from_documents(documents=docs_chunks,
\* collection_name="k6_docs"), then the summary and the end of the script
StoreChunks ==
    /\ pc = "store"
    /\ store_accessed' = TRUE
    /\ vectorstore' = docs_chunks
    /\ pc' = "done"
    /\ exit_status' = 0
    /\ UNCHANGED <<walkVars, loadVars, docs_chunks, inputVars>>

\* step 3 when the store cannot be reached: the exception is not handled and
\* the interpreter ends with status 1
StoreFail ==
    /\ pc = "store"
    /\ store_accessed' = TRUE
    /\ Exit(1)
    /\ UNCHANGED <<walkVars, loadVars, docs_chunks, vectorstore, inputVars>>

(***************************************************************************)
(* The embedding endpoint (embed_api.py)                                   *)
(*                                                                         *)
(* What request.get_json() returns is a tagged value:                      *)
(*   <<"none">>        None (a JSON null)                                  *)
(*   <<"dict", pairs>> an object, pairs the sequence of its <<key, value>> *)
(*   <<"list", items>> an array                                            *)
(*   <<"str", chars>>  a string, as the sequence of its characters         *)
(*   <<"int", n>>      a number                                            *)
(***************************************************************************)
J_none == <<"none">>
J_dict(pairs) == <<"dict", pairs>>
J_list(items) == <<"list", items>>
J_str(chars) == <<"str", chars>>
J_int(n) == <<"int", n>>
C_text == <<"t", "e", "x", "t">>
C_hello == <<"h", "e", "l", "l", "o">>
C_context == <<"c", "o", "n", "t", "e", "x", "t">>

\* bool(data)
Truthy(data) ==
    CASE data[1] = "none" -> FALSE
      [] data[1] \in {"dict", "list", "str"} -> data[2] # <<>>
      [] data[1] = "int" -> data[2] # 0

\* 'text' in data: "yes", "no", or "TypeError" when data is not a container
TextIn(data) ==
    CASE data[1] = "dict" ->
            IF \E i \in DOMAIN data[2] : data[2][i][1] = C_text THEN "yes" ELSE "no"
      [] data[1] = "list" ->
            IF \E i \in DOMAIN data[2] : data[2][i] = J_str(C_text) THEN "yes" ELSE "no"
      [] data[1] = "str" -> IF Contains(data[2], C_text) THEN "yes" ELSE "no"
      [] OTHER -> "TypeError"

\* data['text'] for a dictionary that has the key (the last pair wins)
RECURSIVE DictGet(_, _)
DictGet(pairs, key) ==
    LET last == pairs[Len(pairs)] IN
    IF last[1] = key THEN last[2] ELSE DictGet(SubSeq(pairs, 1, Len(pairs) - 1), key)

\* model.encode(text).tolist(): a vector that depends on the text alone
Encode(text) ==
    <<Len(text[2]), Cardinality({i \in DOMAIN text[2] : text[2][i] = "e"})>>

MissingText == "Missing 'text' in request body"

BadRequest ==
    [status |-> 400, body |-> <<"json", "error", MissingText>>, encoded |-> <<>>]
\* an exception left the handler: the framework answers with its generic page
ServerError ==
    [status |-> 500, body |-> <<"html", "Internal Server Error">>, encoded |-> <<>>]

\* embed(): the response, and the texts it gave to the model
embed(data) ==
    IF ~Truthy(data) THEN BadRequest
    ELSE IF TextIn(data) = "TypeError" THEN ServerError
    ELSE IF TextIn(data) = "no" THEN BadRequest
    ELSE IF data[1] # "dict" THEN ServerError
    ELSE LET text == DictGet(data[2], C_text) IN
         [status |-> 200, body |-> <<"json", "embedding", Encode(text)>>,
          encoded |-> <<text>>]

(***************************************************************************)
(* The parts of the state a specification does not use stay as below       *)
(***************************************************************************)
NoMetadata == [file_path |-> <<>>, tool |-> <<>>, version |-> <<>>, category |-> <<>>]

ExtractIdle ==
    /\ file_path = <<>>
    /\ metadata = NoMetadata
    /\ xpc = "idle"

IncludeIdle ==
    /\ dir_path = <<>>
    /\ include = FALSE
    /\ ipc = "idle"

ParseIdle ==
    /\ parse_path = <<>>
    /\ fm_data = Raised
    /\ ppc = "idle"

RunIdle ==
    /\ pc = "idle"
    /\ walk_stack = <<>>
    /\ root = <<>>
    /\ files = {}
    /\ enhanced_documents = <<>>
    /\ total_files_found = 0
    /\ files_processed = 0
    /\ docs_chunks = <<>>
    /\ vectorstore = <<>>
    /\ store_accessed = FALSE
    /\ exit_status = -1

EmbedIdle ==
    /\ http_log = <<>>
    /\ encode_calls = <<>>

(***************************************************************************)
(* Specification SpecExtract: one call of extract_metadata_from_path       *)
(***************************************************************************)
MaxDepth == 3

DirSegments ==
    {S_k6, S_k6_studio, S_next, S_v1_0_x, S_v12_30_x, S_v1_0, S_1_0_x,
     S_v1_0_xyz, S_V1_0_x, S_av1_0_x, S_javascript_api, S_examples, S_set_up}

FileNames == {S_k6_md, S_basic_md, S_introduction_md, S_installation_md}

\* a chain of at most MaxDepth directories, with or without a file in the last
RelPaths ==
    LET chains == UNION {[1..n -> DirSegments] : n \in 0..MaxDepth} IN
    chains \cup {c \o <<f>> : c \in chains, f \in FileNames}

InitExtract ==
    /\ EmptyFs
    /\ IncludeIdle
    /\ ParseIdle
    /\ RunIdle
    /\ EmbedIdle
    /\ base_path = <<S_sources>>
    /\ \E prefix \in {<<S_sources>>, <<S_elsewhere>>}, rel \in RelPaths :
          file_path = prefix \o rel
    /\ metadata = NoMetadata
    /\ xpc = "call"

CallExtract ==
    /\ xpc = "call"
    /\ metadata' = extract_metadata_from_path(file_path, base_path)
    /\ xpc' = "done"
    /\ UNCHANGED <<file_path, base_path, fsVars, includeVars, parseVars, runVars, embedVars>>

NextExtract == CallExtract

SpecExtract == InitExtract /\ [][NextExtract]_vars

(***************************************************************************)
(* Specification SpecInclude: one call of should_include_directory on a    *)
(* filesystem drawn from the candidate tree below                          *)
(***************************************************************************)
D_k6 == DocsPath \o <<S_k6>>
D_old == D_k6 \o <<S_v0_4_x>>
D_old_api == D_old \o <<S_api>>
D_v1 == D_k6 \o <<S_v1_2_x>>
D_v05 == D_k6 \o <<S_v0_52_x>>
D_odd == D_k6 \o <<S_v1_0_xyz>>
D_next == D_k6 \o <<S_next>>
D_studio == DocsPath \o <<S_k6_studio>>
D_studio_setup == D_studio \o <<S_set_up>>

CandidateDirs == {D_k6, D_old, D_old_api, D_v1, D_v05, D_studio}

CandidateFiles ==
    {D_old \o <<S_index_md>>, D_old_api \o <<S_index_md>>,
     D_old_api \o <<S_a_md>>, D_old \o <<S_notes_txt>>,
     D_v1 \o <<S_index_md>>, D_studio \o <<S_introduction_md>>}

\* every directory on the way from the root to p, the root included
Ancestors(p) == {SubSeq(p, 1, n) : n \in 1..(Len(p) - 1)}

PlainText == <<<<"text", "p1">>>>

IncludeArgs ==
    CandidateDirs \cup {DocsPath, D_odd, D_next, D_studio_setup, D_v1 \o <<S_api>>}

InitInclude ==
    /\ ExtractIdle
    /\ ParseIdle
    /\ RunIdle
    /\ EmbedIdle
    /\ \E present \in SUBSET CandidateFiles, extra \in SUBSET CandidateDirs :
          /\ fsFiles = [p \in present |-> PlainText]
          /\ fsDirs = {DocsPath} \cup UNION {Ancestors(p) : p \in present}
                        \cup extra \cup UNION {Ancestors(d) : d \in extra}
    /\ dir_path \in IncludeArgs
    /\ base_path = DocsPath
    /\ include = FALSE
    /\ ipc = "call"

CallInclude ==
    /\ ipc = "call"
    /\ include' = should_include_directory(dir_path, base_path)
    /\ ipc' = "done"
    /\ UNCHANGED <<dir_path, base_path, fsVars, extractVars, parseVars, runVars, embedVars>>

NextInclude == CallInclude

SpecInclude == InitInclude /\ [][NextInclude]_vars

(***************************************************************************)
(* Specification SpecParse: one call of parse_frontmatter on a file whose  *)
(* text is a front matter block followed by a body, or on a missing file   *)
(***************************************************************************)
V_title == <<"str", "Guide">>
V_description == <<"str", "How to">>

FrontMatters ==
    {<<>>,
     <<L_delim, L_delim>>,
     <<L_delim, L_kv("title", V_title), L_delim>>,
     <<L_delim, L_kv("title", V_title), L_kv("description", V_description),
       L_kv("weight", <<"int", 10>>), L_delim>>,
     <<L_delim, L_kv("weight", <<"str", "high">>), L_delim>>,
     <<L_delim, L_bad, L_delim>>,
     <<L_delim, L_kv("title", V_title), L_bad, L_delim>>,
     <<L_delim, L_kv("title", V_title)>>,
     <<L_ws, L_delim, L_kv("title", V_title), L_delim>>}

Bodies ==
    {<<>>,
     <<L_ws>>,
     <<L_text("p1")>>,
     <<L_ws, L_text("p1"), L_ws>>,
     <<L_text("p1"), L_ws, L_text("p2")>>,
     <<L_text("p1"), L_delim, L_text("p2")>>,
     <<L_undecodable>>}

FileTexts == {fm \o body : fm \in FrontMatters, body \in Bodies}

F_parse == D_studio \o <<S_introduction_md>>

InitParse ==
    /\ ExtractIdle
    /\ IncludeIdle
    /\ RunIdle
    /\ EmbedIdle
    /\ base_path = DocsPath
    /\ fsDirs = {DocsPath, D_studio}
    /\ \/ fsFiles = <<>>
       \/ \E text \in FileTexts : fsFiles = [p \in {F_parse} |-> text]
    /\ parse_path = F_parse
    /\ fm_data = Raised
    /\ ppc = "call"

CallParse ==
    /\ ppc = "call"
    /\ fm_data' = parse_frontmatter(parse_path)
    /\ ppc' = "done"
    /\ UNCHANGED <<parse_path, base_path, fsVars, extractVars, includeVars, runVars, embedVars>>

NextParse == CallParse

SpecParse == InitParse /\ [][NextParse]_vars

(***************************************************************************)
(* Specification Spec: one ingestion run over a documentation tree drawn   *)
(* from the candidate files, each missing or holding one of a few texts    *)
(***************************************************************************)
T_valid ==
    <<L_delim, L_kv("title", V_title), L_kv("weight", <<"int", 10>>), L_delim,
      L_text("p1"), L_ws, L_text("p2")>>
T_malformed == <<L_delim, L_bad, L_delim, L_text("p1")>>
T_blank == <<L_delim, L_kv("title", V_title), L_delim, L_ws>>
T_unreadable == <<L_undecodable>>

Absent == <<<<"absent">>>>

TextChoices(p) ==
    IF EndsWith(Name(p), S_md)
    THEN {Absent, T_valid, T_malformed, T_blank, T_unreadable}
    ELSE {Absent, PlainText}

Trees ==
    {t \in [CandidateFiles -> {Absent, PlainText, T_valid, T_malformed, T_blank,
                                T_unreadable}] :
        \A p \in CandidateFiles : t[p] \in TextChoices(p)}

Init ==
    /\ ExtractIdle
    /\ IncludeIdle
    /\ ParseIdle
    /\ EmbedIdle
    /\ base_path = DocsPath
    /\ \/ EmptyFs
       \/ \E t \in Trees :
             LET present == {p \in CandidateFiles : t[p] # Absent} IN
             /\ fsFiles = [p \in present |-> t[p]]
             /\ fsDirs = {DocsPath} \cup UNION {Ancestors(p) : p \in present}
    /\ pc = "start"
    /\ walk_stack = <<>>
    /\ root = <<>>
    /\ files = {}
    /\ enhanced_documents = <<>>
    /\ total_files_found = 0
    /\ files_processed = 0
    /\ docs_chunks = <<>>
    /\ vectorstore = <<>>
    /\ store_accessed = FALSE
    /\ exit_status = -1

Next ==
    \/ GetDocsPath
    \/ WalkDir
    \/ ProcessFile
    \/ FinishLoad
    \/ ChunkDocuments
    \/ StoreChunks
    \/ StoreFail

Spec == Init /\ [][Next]_vars

(***************************************************************************)
(* Specification SpecEmbed: POST /embed requests answered one after the    *)
(* other by one worker                                                     *)
(***************************************************************************)
MaxRequests == 2

RequestBodies ==
    {J_none,
     J_dict(<<>>),
     J_dict(<<<<C_text, J_str(C_hello)>>>>),
     J_dict(<<<<C_text, J_str(<<>>)>>>>),
     J_dict(<<<<C_hello, J_str(C_text)>>>>),
     J_dict(<<<<C_hello, J_int(1)>>, <<C_text, J_str(C_context)>>>>),
     J_list(<<>>),
     J_list(<<J_str(C_text)>>),
     J_list(<<J_str(C_hello)>>),
     J_str(<<>>),
     J_str(C_hello),
     J_str(C_context),
     J_int(0),
     J_int(5)}

InitEmbed ==
    /\ EmptyFs
    /\ base_path = <<>>
    /\ ExtractIdle
    /\ IncludeIdle
    /\ ParseIdle
    /\ RunIdle
    /\ http_log = <<>>
    /\ encode_calls = <<>>

HandleEmbed ==
    /\ Len(http_log) < MaxRequests
    /\ \E data \in RequestBodies :
          LET r == embed(data) IN
          /\ http_log' = Append(http_log,
                                [data |-> data, status |-> r.status, body |-> r.body])
          /\ encode_calls' = encode_calls \o r.encoded
    /\ UNCHANGED <<fsVars, base_path, extractVars, includeVars, parseVars, runVars>>

NextEmbed == HandleEmbed

SpecEmbed == InitEmbed /\ [][NextEmbed]_vars

(***************************************************************************)
(* Properties                                                              *)
(***************************************************************************)
\* s, in its entirety, has the form v<digits>.<digits>.x
IsVersionTag(s) == VersionMatchEnd(s) = Len(s) + 1

\* the segments of p below base (p is base followed by these segments)
Below(p, base) == SubSeq(p, Len(base) + 1, Len(p))

ExtractedRel == Below(file_path, base_path)
ExtractDone == xpc = "done" /\ IsPrefix(base_path, file_path)

\* C1: for a file path whose segments relative to base_path are k6/<V>/<C>/...
\* with <V> "next" or of the form v<digits>.<digits>.x, the extraction gives
\* tool "k6", version <V> and category <C>.
C1_VersionedPath ==
    (/\ ExtractDone
     /\ Len(ExtractedRel) >= 3
     /\ ExtractedRel[1] = S_k6
     /\ (ExtractedRel[2] = S_next \/ IsVersionTag(ExtractedRel[2])))
    => /\ metadata.tool = S_k6
       /\ metadata.version = ExtractedRel[2]
       /\ metadata.category = ExtractedRel[3]

\* k6/v1.0.x/javascript-api/k6.md has been extracted
C1_Witness ==
    /\ ExtractDone
    /\ ExtractedRel = <<S_k6, S_v1_0_x, S_javascript_api, S_k6_md>>
    /\ metadata.version = S_v1_0_x
    /\ metadata.category = S_javascript_api

\* C2: k6-studio/introduction.md gives tool "k6-studio", version "current"
\* and category "introduction"; k6-studio/set-up/installation.md gives
\* category "set-up".
C2_StudioPaths ==
    /\ (ExtractDone /\ ExtractedRel = <<S_k6_studio, S_introduction_md>>)
       => /\ metadata.tool = S_k6_studio
          /\ metadata.version = S_current
          /\ metadata.category = S_introduction
    /\ (ExtractDone /\ ExtractedRel = <<S_k6_studio, S_set_up, S_installation_md>>)
       => metadata.category = S_set_up

\* C3: the version returned is "next", "current", "unknown", or a string that
\* in its entirety has the form v<digits>.<digits>.x.
C3_VersionForm ==
    xpc = "done"
    => \/ metadata.version \in {S_next, S_current, S_unknown}
       \/ IsVersionTag(metadata.version)

IncludedRel == Below(dir_path, base_path)
IncludeDone == ipc = "done" /\ IsPrefix(base_path, dir_path)
IncludedVersionDir == base_path \o SubSeq(IncludedRel, 1, 2)
\* the Markdown files anywhere below directory d
MarkdownBelow(d) ==
    {p \in DOMAIN fsFiles : IsPrefix(d, Parent(p)) /\ EndsWith(Name(p), S_md)}
AllowListed(version) == Contains(version, S_v0_5) \/ Contains(version, S_v1_)

\* C4: for a directory at k6/<version>/... with <version> of the form
\* v<digits>.<digits>.x, the predicate is true exactly when the version
\* subtree exists and either it holds more than one Markdown file or one not
\* named _index.md, or the version contains "v0.5" or "v1."; so a subtree
\* holding only _index.md gives false for a version not allow-listed and true
\* for v1.2.x, and a missing subtree gives false.
C4_VersionDirectory ==
    (/\ IncludeDone
     /\ Len(IncludedRel) >= 2
     /\ IncludedRel[1] = S_k6
     /\ IsVersionTag(IncludedRel[2]))
    => LET md == MarkdownBelow(IncludedVersionDir)
           rich == Cardinality(md) > 1 \/ \E p \in md : Name(p) # S_index_md
       IN /\ include = (/\ IncludedVersionDir \in fsDirs
                        /\ (rich \/ AllowListed(IncludedRel[2])))
          /\ IncludedVersionDir \notin fsDirs => ~include
          /\ (/\ IncludedVersionDir \in fsDirs
              /\ md = {IncludedVersionDir \o <<S_index_md>>})
             => include = AllowListed(IncludedRel[2])

\* a directory below k6/v0.4.x was rejected, the subtree holding only _index.md
C4_Witness ==
    /\ IncludeDone
    /\ dir_path = D_old_api
    /\ MarkdownBelow(D_old) = {D_old \o <<S_index_md>>}
    /\ ~include

\* C5: the predicate is true for every directory whose first segment relative
\* to base_path is "k6-studio", whatever the filesystem holds.
C5_StudioAlwaysIncluded ==
    (IncludeDone /\ Len(IncludedRel) >= 1 /\ IncludedRel[1] = S_k6_studio)
    => include

\* a k6-studio directory that does not exist was included
C5_Witness ==
    /\ IncludeDone
    /\ dir_path = D_studio_setup
    /\ D_studio \notin fsDirs
    /\ include

\* no document with content has been collected
NoContentDocument ==
    \A i \in DOMAIN enhanced_documents :
        Strip(enhanced_documents[i].page_content) = <<>>

\* C6: the store is accessed only after the root was found to exist and at
\* least one document with content was collected; when the root is missing
\* or no document with content remains, the run ends with a non-zero exit
\* status and without any store access.
C6_StoreOnlyWithDocuments ==
    /\ (store_accessed \/ vectorstore # <<>>)
       => /\ pc \in {"done", "exited"}
          /\ DocsPath \in fsDirs
          /\ enhanced_documents # <<>>
          /\ ~NoContentDocument
    /\ (pc \in {"done", "exited"} /\ (DocsPath \notin fsDirs \/ NoContentDocument))
       => /\ exit_status # 0
          /\ ~store_accessed
          /\ vectorstore = <<>>
    /\ (pc = "chunk" \/ pc = "store") => ~NoContentDocument

\* Markdown files were found, none had content, and the run ended with 1
C6_Witness ==
    /\ pc = "exited"
    /\ DocsPath \in fsDirs
    /\ total_files_found > 0
    /\ enhanced_documents = <<>>
    /\ exit_status = 1
    /\ ~store_accessed

ParsedText == fsFiles[parse_path]
Readable(path) ==
    /\ path \in DOMAIN fsFiles
    /\ \A i \in DOMAIN fsFiles[path] : fsFiles[path][i] # L_undecodable

\* C7: parse_frontmatter never lets a failure out: when front matter parsing
\* fails the whole file text is the content and title, description and weight
\* are empty; when the file cannot be read all four are empty; the result
\* always has exactly the keys title, description, weight and content.
C7_ParseNeverRaises ==
    ppc = "done"
    => /\ ~fm_data.raised
       /\ DOMAIN fm_data.value = {"title", "description", "weight", "content"}
       /\ ~Readable(parse_path)
          => fm_data.value = [title |-> PyEmptyStr, description |-> PyEmptyStr,
                              weight |-> "", content |-> <<>>]
       /\ (Readable(parse_path) /\ FrontmatterLoad(ParsedText).raised)
          => fm_data.value = [title |-> PyEmptyStr, description |-> PyEmptyStr,
                              weight |-> "", content |-> ParsedText]

\* a file with a malformed front matter block was parsed
C7_Witness ==
    /\ ppc = "done"
    /\ Readable(parse_path)
    /\ ParsedText = <<L_delim, L_bad, L_delim, L_text("p1")>>
    /\ ~fm_data.raised
    /\ fm_data.value.content = ParsedText

Labels == {"tool", "version", "category"}
\* chunk carries the labels of the document it was split from
InheritsLabels(chunk) ==
    /\ Labels \subseteq DOMAIN chunk.metadata
    /\ \E i \in DOMAIN enhanced_documents :
          LET doc == enhanced_documents[i] IN
          /\ doc.metadata.source = chunk.metadata.source
          /\ \A k \in Labels : chunk.metadata[k] = doc.metadata[k]

\* C8: every chunk carries tool, version and category identical to those of
\* its parent document, so the chunks of one document agree on them and none
\* is absent.
C8_ChunksInheritLabels ==
    /\ \A i \in DOMAIN docs_chunks : InheritsLabels(docs_chunks[i])
    /\ \A i \in DOMAIN vectorstore : InheritsLabels(vectorstore[i])
    /\ \A i, j \in DOMAIN vectorstore :
          vectorstore[i].metadata.source = vectorstore[j].metadata.source
          => \A k \in Labels : vectorstore[i].metadata[k] = vectorstore[j].metadata[k]

\* two chunks of one versioned document were stored
C8_Witness ==
    /\ pc = "done"
    /\ \E i, j \in DOMAIN vectorstore :
          /\ i # j
          /\ vectorstore[i].metadata.source = vectorstore[j].metadata.source
          /\ vectorstore[i].metadata.version = S_v0_4_x
          /\ vectorstore[i].metadata.tool = S_k6

TextPresent(data) ==
    data[1] = "dict" /\ \E i \in DOMAIN data[2] : data[2][i][1] = C_text
EncodedRequests == SelectSeq(http_log, LAMBDA e : TextPresent(e.data))

\* C9: every request without a "text" field is answered 400 with the error
\* body, every request with one is answered 200 with an embedding, the model
\* is invoked only for the latter, and the answer to a request does not
\* depend on the requests before it.
C9_EmbedResponses ==
    /\ \A i \in DOMAIN http_log :
          LET e == http_log[i] IN
          IF TextPresent(e.data)
          THEN e.status = 200 /\ e.body[2] = "embedding"
          ELSE e.status = 400 /\ e.body = <<"json", "error", MissingText>>
    /\ Len(encode_calls) = Len(EncodedRequests)
    /\ \A i, j \in DOMAIN http_log :
          http_log[i].data = http_log[j].data
          => http_log[i].status = http_log[j].status /\ http_log[i].body = http_log[j].body

\* the version directory of a path below k6/<version>, <<>> otherwise
VersionDirOf(p) ==
    LET rel == Below(p, DocsPath) IN
    IF Len(rel) >= 2 /\ rel[1] = S_k6 /\ ReMatchVersion(rel[2])
    THEN DocsPath \o SubSeq(rel, 1, 2)
    ELSE <<>>
Rejected(d) == d # <<>> /\ ~should_include_directory(d, DocsPath)

\* C10: no Markdown file below a k6 version directory that the predicate
\* rejects is ever added to the documents, and the predicate gives the same
\* answer for a version directory and for each of its descendants.
C10_RejectedSubtreeNeverLoaded ==
    /\ \A i \in DOMAIN enhanced_documents :
          ~Rejected(VersionDirOf(enhanced_documents[i].metadata.source))
    /\ \A d \in fsDirs :
          VersionDirOf(d) # <<>>
          => should_include_directory(d, DocsPath)
                = should_include_directory(VersionDirOf(d), DocsPath)

\* the walk is over, k6/v0.4.x was rejected although a directory below it
\* holds a Markdown file with content, and other documents were loaded
C10_Witness ==
    /\ pc = "chunk"
    /\ Rejected(D_old)
    /\ D_old_api \o <<S_index_md>> \in DOMAIN fsFiles
    /\ fsFiles[D_old_api \o <<S_index_md>>] = T_valid
    /\ enhanced_documents # <<>>

====
